---- MODULE Spec2Model ----
(***************************************************************************)
(* A model of the task management API: the Category and Task tables, the   *)
(* serializers' validation and the viewsets' handlers (api/models.py,      *)
(* api/serializers.py, api/views.py).  One action per request handler.     *)
(***************************************************************************)
EXTENDS Integers, Sequences, FiniteSets, TLC

\* ------------------------------------------------------------------ bounds
\* Rows ever inserted in each table (primary keys are never reused).
MaxCategories == 2
MaxTasks == 2
\* The clock runs from 0 to MaxTime.
MaxTime == 1
\* Writes that may be between validation and save at one time.
MaxInFlight == 2
\* Rows ever inserted in the User table.
MaxAccounts == 2

\* ------------------------------------------------------- program constants
\* Task.category is nullable: the null reference.
NoCategory == 0
\* Task.completed_at is nullable: the null timestamp.
NoTime == -1
\* Category.name = CharField(max_length=100)
NameMaxLength == 100
\* Task.title = CharField(max_length=255)
TitleMaxLength == 255
\* UserRegisterSerializer.username = CharField(max_length=150)
UsernameMaxLength == 150
\* UserRegisterSerializer.password = CharField(min_length=8)
PasswordMinLength == 8
\* REST_FRAMEWORK["PAGE_SIZE"]
PAGE_SIZE == 10
\* REST_FRAMEWORK["MAX_PAGE_SIZE"], a key the paginator does not read
MAX_PAGE_SIZE == 100

HTTP_200_OK == 200
HTTP_201_CREATED == 201
HTTP_204_NO_CONTENT == 204
HTTP_400_BAD_REQUEST == 400
HTTP_401_UNAUTHORIZED == 401
HTTP_404_NOT_FOUND == 404
HTTP_500_INTERNAL_SERVER_ERROR == 500

\* ------------------------------------------------------------------ inputs
Users == {"carol", "dave"}

\* request.user of a request that carries no valid identity.
AnonymousUser == "AnonymousUser"

\* Text is a sequence of one-letter strings.
Names == {<<"W">>, <<"w">>, <<"H">>}
BlankText == <<>>

Priority == {"LOW", "MEDIUM", "HIGH"}
Status == {"PENDING", "COMPLETED"}

\* Primary keys a request may name; MissingPk never names a row.
CategoryPks == 1..MaxCategories
TaskPks == 1..MaxTasks
MissingPk == MaxCategories + MaxTasks + 1

\* --------------------------------------------------------------- text
\* str.lower() on the letters the model uses; other letters have no case.
LowerChar(c) ==
    CASE c = "W" -> "w"
      [] c = "H" -> "h"
      [] c = "M" -> "m"
      [] OTHER -> c

Lower(s) == [i \in 1..Len(s) |-> LowerChar(s[i])]

\* A faulty name__iexact: the exact, case-sensitive comparison.
IExactCaseSensitive(a, b) == a = b

\* The name__iexact lookup: equality after case folding.
IExact(a, b) == Lower(a) = Lower(b)

\* The icontains lookup of SearchFilter: a case-insensitive substring match.
IContains(text, term) ==
    \E i \in 1..(Len(text) - Len(term) + 1) :
        Lower(SubSeq(text, i, i + Len(term) - 1)) = Lower(term)

\* Code points of the letters, for ORDER BY on text columns.
Ord(c) ==
    CASE c = "H" -> 72
      [] c = "M" -> 77
      [] c = "W" -> 87
      [] c = "h" -> 104
      [] c = "m" -> 109
      [] c = "w" -> 119
      [] c = "x" -> 120
      [] OTHER -> 0

RECURSIVE TextLess(_, _)
TextLess(a, b) ==
    IF a = <<>> THEN b # <<>>
    ELSE IF b = <<>> THEN FALSE
    ELSE IF Ord(Head(a)) # Ord(Head(b)) THEN Ord(Head(a)) < Ord(Head(b))
    ELSE TextLess(Tail(a), Tail(b))

\* CharField(trim_whitespace=True): str.strip() of the submitted text.
Strip(s) ==
    LET kept == {i \in 1..Len(s) : s[i] # " "}
    IN  IF kept = {} THEN <<>>
        ELSE SubSeq(s, CHOOSE i \in kept : \A j \in kept : i <= j,
                       CHOOSE i \in kept : \A j \in kept : i >= j)

\* A request body: a function from the keys the client sent to their values.
Has(data, key) == key \in DOMAIN data
Get(data, key, default) == IF key \in DOMAIN data THEN data[key] ELSE default
EmptyBody == [k \in {} |-> 0]

\* ------------------------------------------------------------------- state
VARIABLES
    categories,      \* the Category table: pk -> [user, name]
    tasks,           \* the Task table: pk -> row
    nextCategoryId,  \* the Category table's AUTOINCREMENT sequence
    nextTaskId,      \* the Task table's AUTOINCREMENT sequence
    now,             \* timezone.now()
    inflight,        \* writes that passed validation and have not saved
    accounts,        \* the User table: username -> [email, password]
    resp             \* the response to the last request

vars == <<categories, tasks, nextCategoryId, nextTaskId, now, inflight, accounts, resp>>
store == <<categories, tasks>>

NoErrors == {}

\* History kept with a toggle response: the run of successive body-less toggles
\* of task pk that the request continues, n requests long, and the status and
\* completed_at the task had when the run began.
NoRun == [pk |-> 0, n |-> 0, status |-> "", completed_at |-> NoTime]

Response(op, u, pk, code, errors, results) ==
    [op |-> op, user |-> u, pk |-> pk, code |-> code, errors |-> errors,
     results |-> results, run |-> NoRun]

NotFound(op, u, pk) ==
    Response(op, u, pk, HTTP_404_NOT_FOUND, {<<"detail", "Not found.">>}, <<>>)

BadRequest(op, u, pk, errors) ==
    Response(op, u, pk, HTTP_400_BAD_REQUEST, errors, <<>>)

\* An exception no handler catches: Django answers 500.
ServerError(op, u, pk, exc) ==
    Response(op, u, pk, HTTP_500_INTERNAL_SERVER_ERROR, {<<"exception", exc>>}, <<>>)

Init ==
    /\ categories = [k \in {} |-> 0]
    /\ tasks = [k \in {} |-> 0]
    /\ nextCategoryId = 1
    /\ nextTaskId = 1
    /\ now = 0
    /\ inflight = [i \in {} |-> 0]
    /\ accounts = [n \in {} |-> 0]
    /\ resp = Response("none", "nobody", 0, 0, NoErrors, <<>>)

\* Time passes between requests.
Tick ==
    /\ now < MaxTime
    /\ now' = now + 1
    /\ UNCHANGED <<categories, tasks, nextCategoryId, nextTaskId, inflight, resp, accounts>>

\* ------------------------------------------------------------ permissions
\* A faulty permission class: permissions.AllowAny on the viewsets.
AllowAny(u) == TRUE

\* permission_classes = [IsAuthenticated]: request.user is a logged-in user.
IsAuthenticated(u) == u # AnonymousUser

\* The NotAuthenticated exception: JWTAuthentication gives it the 401 status.
NotAuthenticated(op, u, pk) ==
    Response(op, u, pk, HTTP_401_UNAUTHORIZED,
             {<<"detail", "Authentication credentials were not provided.">>}, <<>>)

\* APIView.permission_denied: initial() raises before the handler is called.
permission_denied(op, u, pk) ==
    /\ resp' = NotAuthenticated(op, u, pk)
    /\ UNCHANGED <<categories, tasks, nextCategoryId, nextTaskId, now, inflight, accounts>>

\* --------------------------------------------------------------- Category
\* A faulty get_queryset: Category.objects.all(), not scoped to the requester.
CategoryQuerysetAll(u) == DOMAIN categories

\* CategoryViewSet.get_queryset: Category.objects.filter(user=request.user)
CategoryQueryset(u) == {pk \in DOMAIN categories : categories[pk].user = u}

\* A faulty validate_name: the category being updated is not excluded.
validate_nameIncludesSelf(u, value, instance) ==
    \E pk \in DOMAIN categories :
        categories[pk].user = u /\ IExact(categories[pk].name, value)

\* CategorySerializer.validate_name: TRUE when the name collides.  instance is
\* the pk of the category being updated, NoCategory on create.
validate_name(u, value, instance) ==
    LET qs == {pk \in DOMAIN categories :
                  /\ categories[pk].user = u
                  /\ IExact(categories[pk].name, value)}
        excl == IF instance # NoCategory THEN qs \ {instance} ELSE qs
    IN  excl # {}

\* The errors of CategorySerializer.is_valid().
CategoryErrors(u, data, instance, partial) ==
    IF ~Has(data, "name")
    THEN IF partial THEN NoErrors ELSE {<<"name", "This field is required.">>}
    ELSE IF data.name = BlankText
    THEN {<<"name", "This field may not be blank.">>}
    ELSE IF Len(data.name) > NameMaxLength
    THEN {<<"name", "Ensure this field has no more than 100 characters.">>}
    ELSE IF validate_name(u, data.name, instance)
    THEN {<<"name", "You already have a category with this name.">>}
    ELSE NoErrors

\* Category.Meta.unique_together = [("user", "name")]: the table's constraint,
\* an exact comparison.  TRUE when a row other than `instance` holds the pair.
UniqueTogetherViolated(cats, u, name, instance) ==
    \E pk \in DOMAIN cats :
        /\ pk # instance
        /\ cats[pk].user = u
        /\ cats[pk].name = name

\* The rows after Model.save() wrote the category: an UPDATE of row pk, or an
\* INSERT when no row has that pk.
CategoryRowSaved(cats, pk, u, name) ==
    IF pk \in DOMAIN cats
    THEN [cats EXCEPT ![pk].name = name]
    ELSE cats @@ (pk :> [user |-> u, name |-> name])

\* A faulty perform_create: the owner is taken from the payload when it has one.
CategoryOwnerFromPayload(u, data) == Get(data, "user", u)

\* CategoryViewSet.perform_create: serializer.save(user=self.request.user)
CategoryOwner(u, data) == u

\* A category write that passed validation: what serializer.save() will write.
\* pk is NoCategory for a create.
CategoryWrite(op, u, pk, owner, name) ==
    [op |-> op, user |-> u, pk |-> pk, owner |-> owner, name |-> name]

\* The answer to an IntegrityError raised by save(): nothing catches it.
\* A variant that answers it as the name pre-check does.
IntegrityErrorAsValidationError(op, u, pk) ==
    BadRequest(op, u, pk, {<<"name", "You already have a category with this name.">>})

IntegrityErrorResponse(op, u, pk) == ServerError(op, u, pk, "IntegrityError")

\* perform_create / perform_update: serializer.save() of a validated write w.
SaveCategory(w) ==
    IF UniqueTogetherViolated(categories, w.owner, w.name, w.pk)
    THEN /\ resp' = IntegrityErrorResponse(w.op, w.user, w.pk)
         /\ UNCHANGED <<categories, nextCategoryId>>
    ELSE IF w.pk = NoCategory
    THEN /\ nextCategoryId <= MaxCategories
         /\ categories' = CategoryRowSaved(categories, nextCategoryId, w.owner, w.name)
         /\ nextCategoryId' = nextCategoryId + 1
         /\ resp' = Response(w.op, w.user, nextCategoryId, HTTP_201_CREATED,
                             NoErrors, <<nextCategoryId>>)
    ELSE /\ categories' = CategoryRowSaved(categories, w.pk, w.owner, w.name)
         /\ nextCategoryId' = nextCategoryId
         /\ resp' = Response(w.op, w.user, w.pk, HTTP_200_OK, NoErrors, <<w.pk>>)

\* POST /api/categories/
CategoryCreate(u, data) ==
    IF ~IsAuthenticated(u) THEN permission_denied("category_create", u, NoCategory) ELSE
    LET errors == CategoryErrors(u, data, NoCategory, FALSE)
    IN  /\ IF errors # NoErrors
           THEN /\ resp' = BadRequest("category_create", u, NoCategory, errors)
                /\ UNCHANGED <<categories, nextCategoryId>>
           ELSE SaveCategory(CategoryWrite("category_create", u, NoCategory,
                                           CategoryOwner(u, data), data.name))
        /\ UNCHANGED <<tasks, nextTaskId, now, inflight, accounts>>

\* GET /api/categories/<pk>/
CategoryRetrieve(u, pk) ==
    IF ~IsAuthenticated(u) THEN permission_denied("category_retrieve", u, pk) ELSE
    /\ resp' = IF pk \in CategoryQueryset(u)
               THEN Response("category_retrieve", u, pk, HTTP_200_OK, NoErrors, <<pk>>)
               ELSE NotFound("category_retrieve", u, pk)
    /\ UNCHANGED <<categories, tasks, nextCategoryId, nextTaskId, now, inflight, accounts>>

UpdateOp(kind, partial) ==
    IF partial THEN kind \o "_partial_update" ELSE kind \o "_update"

\* PUT (partial = FALSE) and PATCH (partial = TRUE) /api/categories/<pk>/
CategoryUpdate(u, pk, data, partial) ==
    IF ~IsAuthenticated(u) THEN permission_denied(UpdateOp("category", partial), u, pk) ELSE
    LET op == UpdateOp("category", partial)
        errors == CategoryErrors(u, data, pk, partial)
    IN  /\ IF pk \notin CategoryQueryset(u)
           THEN /\ resp' = NotFound(op, u, pk)
                /\ UNCHANGED <<categories, nextCategoryId>>
           ELSE IF errors # NoErrors
           THEN /\ resp' = BadRequest(op, u, pk, errors)
                /\ UNCHANGED <<categories, nextCategoryId>>
           ELSE SaveCategory(CategoryWrite(op, u, pk, categories[pk].user,
                                           Get(data, "name", categories[pk].name)))
        /\ UNCHANGED <<tasks, nextTaskId, now, inflight, accounts>>

\* A faulty on_delete: the referencing tasks keep the deleted category's pk.
DoNothing(rows, pk) == rows

\* A faulty on_delete: CASCADE, the referencing tasks are deleted.
Cascade(rows, pk) ==
    [t \in {k \in DOMAIN rows : rows[k].category # pk} |-> rows[t]]

\* Task.category on_delete=SET_NULL: the tasks after category pk is deleted.
SetNull(rows, pk) ==
    [t \in DOMAIN rows |->
        IF rows[t].category = pk THEN [rows[t] EXCEPT !.category = NoCategory]
        ELSE rows[t]]

\* DELETE /api/categories/<pk>/
CategoryDestroy(u, pk) ==
    IF ~IsAuthenticated(u) THEN permission_denied("category_destroy", u, pk) ELSE
    /\ IF pk \notin CategoryQueryset(u)
       THEN /\ resp' = NotFound("category_destroy", u, pk)
            /\ UNCHANGED <<categories, tasks>>
       ELSE /\ categories' = [k \in DOMAIN categories \ {pk} |-> categories[k]]
            /\ tasks' = SetNull(tasks, pk)
            /\ resp' = Response("category_destroy", u, pk,
                                HTTP_204_NO_CONTENT, NoErrors, <<>>)
    /\ UNCHANGED <<nextCategoryId, nextTaskId, now, inflight, accounts>>

\* ------------------------------------------------------------------- Task
\* A faulty get_queryset: Task.objects.all(), not scoped to the requester.
TaskQuerysetAll(u) == DOMAIN tasks

\* TaskViewSet.get_queryset: Task.objects.filter(user=request.user)
TaskQueryset(u) == {pk \in DOMAIN tasks : tasks[pk].user = u}

\* A faulty validate_category: the owner of the category is not compared.
validate_categoryAnyOwner(u, value) == FALSE

\* TaskSerializer.validate_category: TRUE when the category is refused.
validate_category(u, value) ==
    IF value = NoCategory THEN FALSE
    ELSE categories[value].user # u

\* The category field, a PrimaryKeyRelatedField over Category.objects.all(),
\* then validate_category.
CategoryFieldErrors(u, data) ==
    IF ~Has(data, "category") THEN NoErrors
    ELSE IF data.category = NoCategory THEN NoErrors
    ELSE IF data.category \notin DOMAIN categories
    THEN {<<"category", "Invalid pk - object does not exist.">>}
    ELSE IF validate_category(u, data.category)
    THEN {<<"category", "You can only assign your own categories to your tasks.">>}
    ELSE NoErrors

RequiredFieldErrors(data, field, partial) ==
    IF ~Has(data, field) /\ ~partial
    THEN {<<field, "This field is required.">>}
    ELSE NoErrors

TitleFieldErrors(data) ==
    IF ~Has(data, "title") THEN NoErrors
    ELSE IF data.title = BlankText THEN {<<"title", "This field may not be blank.">>}
    ELSE IF Len(data.title) > TitleMaxLength
    THEN {<<"title", "Ensure this field has no more than 255 characters.">>}
    ELSE NoErrors

ChoiceFieldErrors(data, field, choices) ==
    IF Has(data, field) /\ data[field] \notin choices
    THEN {<<field, "Not a valid choice.">>}
    ELSE NoErrors

\* The errors of TaskSerializer.is_valid(): every writable field is validated
\* and the errors of all of them are reported together.
TaskErrors(u, data, partial) ==
    RequiredFieldErrors(data, "title", partial)
    \cup TitleFieldErrors(data)
    \cup RequiredFieldErrors(data, "due_date", partial)
    \cup ChoiceFieldErrors(data, "priority", Priority)
    \cup ChoiceFieldErrors(data, "status", Status)
    \cup CategoryFieldErrors(u, data)

\* A faulty Meta: completed_at is left out of read_only_fields.
TaskWritableFieldsAndCompletedAt ==
    {"title", "description", "due_date", "priority", "status", "category", "completed_at"}

\* TaskSerializer.Meta: the fields a client may write.  id, user, completed_at,
\* category_name, created_at and updated_at are read-only.
TaskWritableFields ==
    {"title", "description", "due_date", "priority", "status", "category"}

\* serializer.validated_data: the writable fields the client sent.
ValidatedData(data) == [f \in DOMAIN data \cap TaskWritableFields |-> data[f]]

\* Faulty field defaults: a task starts with priority LOW.
TaskDefaultsLow(u) ==
    [user |-> u, category |-> NoCategory, title |-> BlankText,
     description |-> BlankText, due_date |-> 0, priority |-> "LOW",
     status |-> "PENDING", completed_at |-> NoTime]

\* The model's field defaults (Task.objects.create with only some fields).
TaskDefaults(u) ==
    [user |-> u, category |-> NoCategory, title |-> BlankText,
     description |-> BlankText, due_date |-> 0, priority |-> "MEDIUM",
     status |-> "PENDING", completed_at |-> NoTime]

\* ModelSerializer.create / update: setattr for every validated field.
WithAttrs(row, validated) ==
    [f \in DOMAIN row |-> IF f \in DOMAIN validated THEN validated[f] ELSE row[f]]

\* POST /api/tasks/
TaskCreate(u, data) ==
    IF ~IsAuthenticated(u) THEN permission_denied("task_create", u, 0) ELSE
    LET errors == TaskErrors(u, data, FALSE)
    IN  /\ IF errors # NoErrors
           THEN /\ resp' = BadRequest("task_create", u, 0, errors)
                /\ UNCHANGED <<tasks, nextTaskId>>
           ELSE /\ nextTaskId <= MaxTasks
                /\ tasks' = tasks @@
                       (nextTaskId :> WithAttrs(TaskDefaults(u), ValidatedData(data)))
                /\ nextTaskId' = nextTaskId + 1
                /\ resp' = Response("task_create", u, nextTaskId,
                                    HTTP_201_CREATED, NoErrors, <<nextTaskId>>)
        /\ UNCHANGED <<categories, nextCategoryId, now, inflight, accounts>>

\* GET /api/tasks/<pk>/
TaskRetrieve(u, pk) ==
    IF ~IsAuthenticated(u) THEN permission_denied("task_retrieve", u, pk) ELSE
    /\ resp' = IF pk \in TaskQueryset(u)
               THEN Response("task_retrieve", u, pk, HTTP_200_OK, NoErrors, <<pk>>)
               ELSE NotFound("task_retrieve", u, pk)
    /\ UNCHANGED <<categories, tasks, nextCategoryId, nextTaskId, now, inflight, accounts>>

\* PUT (partial = FALSE) and PATCH (partial = TRUE) /api/tasks/<pk>/
TaskUpdate(u, pk, data, partial) ==
    IF ~IsAuthenticated(u) THEN permission_denied(UpdateOp("task", partial), u, pk) ELSE
    LET op == UpdateOp("task", partial)
        errors == TaskErrors(u, data, partial)
    IN  /\ IF pk \notin TaskQueryset(u)
           THEN /\ resp' = NotFound(op, u, pk)
                /\ UNCHANGED tasks
           ELSE IF errors # NoErrors
           THEN /\ resp' = BadRequest(op, u, pk, errors)
                /\ UNCHANGED tasks
           ELSE /\ tasks' = [tasks EXCEPT ![pk] = WithAttrs(@, ValidatedData(data))]
                /\ resp' = Response(op, u, pk, HTTP_200_OK, NoErrors, <<pk>>)
        /\ UNCHANGED <<categories, nextCategoryId, nextTaskId, now, inflight, accounts>>

\* DELETE /api/tasks/<pk>/
TaskDestroy(u, pk) ==
    IF ~IsAuthenticated(u) THEN permission_denied("task_destroy", u, pk) ELSE
    /\ IF pk \notin TaskQueryset(u)
       THEN /\ resp' = NotFound("task_destroy", u, pk)
            /\ UNCHANGED tasks
       ELSE /\ tasks' = [k \in DOMAIN tasks \ {pk} |-> tasks[k]]
            /\ resp' = Response("task_destroy", u, pk,
                                HTTP_204_NO_CONTENT, NoErrors, <<>>)
    /\ UNCHANGED <<categories, nextCategoryId, nextTaskId, now, inflight, accounts>>

\* Task.mark_complete
mark_complete(row, t) == [row EXCEPT !.status = "COMPLETED", !.completed_at = t]

\* A faulty mark_incomplete: completed_at is not cleared.
mark_incompleteKeepsTime(row) == [row EXCEPT !.status = "PENDING"]

\* Task.mark_incomplete
mark_incomplete(row) == [row EXCEPT !.status = "PENDING", !.completed_at = NoTime]

\* A faulty toggle: the requested status is ignored and the status flipped.
ToggledAlwaysFlips(row, data, t) ==
    IF row.status = "PENDING" THEN mark_complete(row, t) ELSE mark_incomplete(row)

\* The body of TaskViewSet.toggle after get_object(): the row it saves.
Toggled(row, data, t) ==
    LET new_status == Get(data, "status", "")
    IN  IF new_status = "COMPLETED" THEN mark_complete(row, t)
        ELSE IF new_status = "PENDING" THEN mark_incomplete(row)
        ELSE IF row.status = "PENDING" THEN mark_complete(row, t)
        ELSE mark_incomplete(row)

\* The run of body-less toggles after this toggle of task pk.
ToggleRun(pk, data) ==
    IF data # EmptyBody THEN NoRun
    ELSE IF resp.op = "task_toggle" /\ resp.run.pk = pk /\ resp.run.n = 1
    THEN [resp.run EXCEPT !.n = 2]
    ELSE [pk |-> pk, n |-> 1, status |-> tasks[pk].status,
          completed_at |-> tasks[pk].completed_at]

\* PATCH /api/tasks/<pk>/toggle/
TaskToggle(u, pk, data) ==
    IF ~IsAuthenticated(u) THEN permission_denied("task_toggle", u, pk) ELSE
    /\ IF pk \notin TaskQueryset(u)
       THEN /\ resp' = NotFound("task_toggle", u, pk)
            /\ UNCHANGED tasks
       ELSE /\ tasks' = [tasks EXCEPT ![pk] = Toggled(@, data, now)]
            /\ resp' = [Response("task_toggle", u, pk, HTTP_200_OK, NoErrors, <<pk>>)
                           EXCEPT !.run = ToggleRun(pk, data)]
    /\ UNCHANGED <<categories, nextCategoryId, nextTaskId, now, inflight, accounts>>

\* ------------------------------------------------------------------ lists
\* DjangoFilterBackend over filterset_fields: a value that is no choice of a
\* choice field, or no pk of Category.objects.all(), fails the filterset.
FiltersetErrors(params) ==
    ChoiceFieldErrors(params, "priority", Priority)
    \cup ChoiceFieldErrors(params, "status", Status)
    \cup ChoiceFieldErrors(params, "category", DOMAIN categories)

\* DjangoFilterBackend.filter_queryset: every given filter narrows by equality.
Filtered(qs, params) ==
    {pk \in qs :
        \A f \in DOMAIN params \cap {"priority", "status", "due_date", "category"} :
            tasks[pk][f] = params[f]}

\* SearchFilter over search_fields = ["title", "description"].
TaskSearched(qs, params) ==
    IF ~Has(params, "search") THEN qs
    ELSE {pk \in qs : \/ IContains(tasks[pk].title, params.search)
                      \/ IContains(tasks[pk].description, params.search)}

\* SearchFilter over search_fields = ["name"].
CategorySearched(qs, params) ==
    IF ~Has(params, "search") THEN qs
    ELSE {pk \in qs : IContains(categories[pk].name, params.search)}

\* OrderingFilter.get_ordering: a field outside ordering_fields is dropped and
\* the view's default ordering is used.
Ordering(params, fields, default) ==
    IF Has(params, "ordering") /\ params.ordering \in fields
    THEN params.ordering ELSE default

TaskOrderingFields ==
    {"due_date", "-due_date", "priority", "-priority", "created_at", "-created_at"}
CategoryOrderingFields == {"name", "-name", "created_at", "-created_at"}

\* The rank of a priority under ORDER BY on its text column.
PriorityRank(p) == CASE p = "HIGH" -> 1 [] p = "LOW" -> 2 [] OTHER -> 3

\* ORDER BY for tasks.  created_at is auto_now_add and the pk is the insertion
\* sequence, so the pk stands for created_at; ties are broken by pk.
TaskBefore(o, a, b) ==
    LET ka == CASE o \in {"due_date", "-due_date"} -> tasks[a].due_date
                [] o \in {"priority", "-priority"} -> PriorityRank(tasks[a].priority)
                [] OTHER -> a
        kb == CASE o \in {"due_date", "-due_date"} -> tasks[b].due_date
                [] o \in {"priority", "-priority"} -> PriorityRank(tasks[b].priority)
                [] OTHER -> b
        desc == o \in {"-due_date", "-priority", "-created_at"}
    IN  IF ka = kb THEN a < b
        ELSE IF desc THEN ka > kb ELSE ka < kb

\* ORDER BY for categories.
CategoryBefore(o, a, b) ==
    IF o \in {"name", "-name"} /\ categories[a].name # categories[b].name
    THEN IF o = "name" THEN TextLess(categories[a].name, categories[b].name)
         ELSE TextLess(categories[b].name, categories[a].name)
    ELSE IF o = "-created_at" THEN a > b ELSE a < b

RECURSIVE TaskSorted(_, _)
TaskSorted(S, o) ==
    IF S = {} THEN <<>>
    ELSE LET first == CHOOSE x \in S : \A y \in S \ {x} : TaskBefore(o, x, y)
         IN  <<first>> \o TaskSorted(S \ {first}, o)

RECURSIVE CategorySorted(_, _)
CategorySorted(S, o) ==
    IF S = {} THEN <<>>
    ELSE LET first == CHOOSE x \in S : \A y \in S \ {x} : CategoryBefore(o, x, y)
         IN  <<first>> \o CategorySorted(S \ {first}, o)

\* PageNumberPagination.get_page_size: page_size_query_param is unset on the
\* class, so the size is always the PAGE_SIZE setting.
get_page_size(params) == PAGE_SIZE

\* Paginator.num_pages, with an empty first page allowed.
NumPages(n, size) == IF n = 0 THEN 1 ELSE (n + size - 1) \div size

\* Paginator.page(number).object_list
PageOf(rows, number, size) ==
    SubSeq(rows, (number - 1) * size + 1,
           IF number * size < Len(rows) THEN number * size ELSE Len(rows))

\* ListModelMixin.list over a filtered, ordered queryset.
Paginated(op, u, params, rows) ==
    LET size == get_page_size(params)
        number == Get(params, "page", 1)
    IN  IF number < 1 \/ number > NumPages(Len(rows), size)
        THEN Response(op, u, 0, HTTP_404_NOT_FOUND,
                      {<<"detail", "Invalid page.">>}, <<>>)
        ELSE Response(op, u, 0, HTTP_200_OK, NoErrors, PageOf(rows, number, size))

\* GET /api/categories/
CategoryList(u, params) ==
    IF ~IsAuthenticated(u) THEN permission_denied("category_list", u, 0) ELSE
    /\ resp' = Paginated("category_list", u, params,
                         CategorySorted(CategorySearched(CategoryQueryset(u), params),
                                        Ordering(params, CategoryOrderingFields, "name")))
    /\ UNCHANGED <<categories, tasks, nextCategoryId, nextTaskId, now, inflight, accounts>>

\* GET /api/tasks/
TaskList(u, params) ==
    IF ~IsAuthenticated(u) THEN permission_denied("task_list", u, 0) ELSE
    /\ resp' = IF FiltersetErrors(params) # NoErrors
               THEN BadRequest("task_list", u, 0, FiltersetErrors(params))
               ELSE Paginated("task_list", u, params,
                        TaskSorted(TaskSearched(Filtered(TaskQueryset(u), params), params),
                                   Ordering(params, TaskOrderingFields, "-created_at")))
    /\ UNCHANGED <<categories, tasks, nextCategoryId, nextTaskId, now, inflight, accounts>>

\* ----------------------------------------------------------- registration
\* A faulty validate_username: the exact, case-sensitive lookup.
validate_usernameExact(value) == value \in DOMAIN accounts

\* UserRegisterSerializer.validate_username: TRUE when the name is taken.
validate_username(value) == \E name \in DOMAIN accounts : IExact(name, value)

\* The username field: required, stripped, not blank, at most 150 characters,
\* then validate_username.
UsernameErrors(data) ==
    IF ~Has(data, "username") THEN {<<"username", "This field is required.">>}
    ELSE IF Strip(data.username) = BlankText
    THEN {<<"username", "This field may not be blank.">>}
    ELSE IF Len(Strip(data.username)) > UsernameMaxLength
    THEN {<<"username", "Ensure this field has no more than 150 characters.">>}
    ELSE IF validate_username(Strip(data.username))
    THEN {<<"username", "A user with this username already exists.">>}
    ELSE NoErrors

\* The email field: optional, may be blank, otherwise an address with an "@".
EmailErrors(data) ==
    IF ~Has(data, "email") \/ Strip(data.email) = BlankText THEN NoErrors
    ELSE IF \A i \in 1..Len(data.email) : data.email[i] # "@"
    THEN {<<"email", "Enter a valid email address.">>}
    ELSE NoErrors

\* The password field: required, stripped, not blank, at least 8 characters.
PasswordErrors(data) ==
    IF ~Has(data, "password") THEN {<<"password", "This field is required.">>}
    ELSE IF Strip(data.password) = BlankText
    THEN {<<"password", "This field may not be blank.">>}
    ELSE IF Len(Strip(data.password)) < PasswordMinLength
    THEN {<<"password", "Ensure this field has at least 8 characters.">>}
    ELSE NoErrors

\* The errors of UserRegisterSerializer.is_valid().
RegisterErrors(data) == UsernameErrors(data) \cup EmailErrors(data) \cup PasswordErrors(data)

\* User.set_password: the table keeps a hash, never the password.
make_password(password) == <<"pbkdf2_sha256", password>>

\* UserRegisterSerializer.create: User.objects.create_user(...)
create_user(username, email, password) ==
    username :> [email |-> email, password |-> make_password(password)]

\* POST /api/register/ (permission_classes = [AllowAny])
Register(data) ==
    LET errors == RegisterErrors(data)
        username == Strip(data.username)
    IN  /\ IF errors # NoErrors
           THEN /\ resp' = BadRequest("register", AnonymousUser, 0, errors)
                /\ UNCHANGED accounts
           ELSE IF username \in DOMAIN accounts
           THEN /\ resp' = ServerError("register", AnonymousUser, 0, "IntegrityError")
                /\ UNCHANGED accounts
           ELSE /\ Cardinality(DOMAIN accounts) < MaxAccounts
                /\ accounts' = accounts @@
                       create_user(username, Strip(Get(data, "email", BlankText)),
                                   Strip(data.password))
                /\ resp' = Response("register", AnonymousUser, 0, HTTP_201_CREATED, NoErrors,
                                    <<[message |-> "Account created successfully.",
                                       username |-> username]>>)
        /\ UNCHANGED <<categories, tasks, nextCategoryId, nextTaskId, now, inflight>>

\* ------------------------------------------------------------ requests
Body1(k, v) == k :> v
Body2(k1, v1, k2, v2) == (k1 :> v1) @@ (k2 :> v2)

\* The requests to the category endpoints, with bodies and query parameters
\* drawn from the given sets.
CategoryRequests(bodies, listParams) ==
    \E u \in Users :
        \/ \E data \in bodies : CategoryCreate(u, data)
        \/ \E pk \in CategoryPks \cup {MissingPk} : CategoryRetrieve(u, pk)
        \/ \E pk \in CategoryPks \cup {MissingPk}, data \in bodies, partial \in BOOLEAN :
              CategoryUpdate(u, pk, data, partial)
        \/ \E pk \in CategoryPks \cup {MissingPk} : CategoryDestroy(u, pk)
        \/ \E params \in listParams : CategoryList(u, params)

\* The requests to the task endpoints.
TaskRequests(bodies, patches, toggles, listParams) ==
    \E u \in Users :
        \/ \E data \in bodies : TaskCreate(u, data)
        \/ \E pk \in TaskPks \cup {MissingPk} : TaskRetrieve(u, pk)
        \/ \E pk \in TaskPks \cup {MissingPk}, data \in bodies : TaskUpdate(u, pk, data, FALSE)
        \/ \E pk \in TaskPks \cup {MissingPk}, data \in patches : TaskUpdate(u, pk, data, TRUE)
        \/ \E pk \in TaskPks \cup {MissingPk} : TaskDestroy(u, pk)
        \/ \E pk \in TaskPks \cup {MissingPk}, data \in toggles : TaskToggle(u, pk, data)
        \/ \E params \in listParams : TaskList(u, params)

\* The least a task create needs.
MinimalTask == Body2("title", <<"m">>, "due_date", 1)

\* --- Spec: every endpoint, two users, categories assigned to tasks.
CategoryBodies == {Body1("name", <<"W">>), EmptyBody}

TaskPatches ==
    {Body1("category", c) : c \in CategoryPks \cup {NoCategory, MissingPk}}
    \cup {Body2("completed_at", 1, "user", "dave")}

TaskBodies == {MinimalTask} \cup {MinimalTask @@ p : p \in TaskPatches}
                \cup {Body1("due_date", 1)}

Next ==
    \/ CategoryRequests(CategoryBodies, {EmptyBody})
    \/ TaskRequests(TaskBodies, TaskPatches, {EmptyBody}, {EmptyBody})

Spec == Init /\ [][Next]_vars

\* --- SpecTasks: the task endpoints with every status input, as time passes.
StatusPatches ==
    {Body1("status", s) : s \in Status}
    \cup {Body1("status", "DONE"), Body1("priority", "HIGH"), Body1("completed_at", 1)}

StatusBodies == {MinimalTask} \cup {MinimalTask @@ p : p \in StatusPatches}

ToggleBodies == {EmptyBody, Body1("status", "done")} \cup {Body1("status", s) : s \in Status}

NextTasks ==
    \/ Tick
    \/ TaskRequests(StatusBodies, StatusPatches, ToggleBodies, {EmptyBody})

SpecTasks == Init /\ [][NextTasks]_vars

\* --- SpecCategories: the category endpoints with names that differ by case.
NameBodies == {Body1("name", n) : n \in Names} \cup {EmptyBody, Body1("name", BlankText)}

NextCategories == CategoryRequests(NameBodies, {EmptyBody})

SpecCategories == Init /\ [][NextCategories]_vars

\* --- SpecConcurrent: category creates and renames of several requests at
\* once.  A request validates (is_valid) in one step and saves in a later
\* one; other requests may run between the two.
FreeSlot == CHOOSE i \in 1..MaxInFlight : i \notin DOMAIN inflight

\* POST /api/categories/ up to the end of serializer.is_valid().
CategoryCreateValidate(u, data) ==
    IF ~IsAuthenticated(u) THEN permission_denied("category_create", u, NoCategory) ELSE
    LET errors == CategoryErrors(u, data, NoCategory, FALSE)
    IN  /\ IF errors # NoErrors
           THEN /\ resp' = BadRequest("category_create", u, NoCategory, errors)
                /\ UNCHANGED inflight
           ELSE /\ Cardinality(DOMAIN inflight) < MaxInFlight
                /\ inflight' = inflight @@
                       (FreeSlot :> CategoryWrite("category_create", u, NoCategory,
                                                  CategoryOwner(u, data), data.name))
                /\ UNCHANGED resp
        /\ UNCHANGED <<categories, tasks, nextCategoryId, nextTaskId, now, accounts>>

\* PUT/PATCH /api/categories/<pk>/ up to the end of serializer.is_valid().
CategoryUpdateValidate(u, pk, data, partial) ==
    IF ~IsAuthenticated(u) THEN permission_denied(UpdateOp("category", partial), u, pk) ELSE
    LET op == UpdateOp("category", partial)
        errors == CategoryErrors(u, data, pk, partial)
    IN  /\ IF pk \notin CategoryQueryset(u)
           THEN /\ resp' = NotFound(op, u, pk)
                /\ UNCHANGED inflight
           ELSE IF errors # NoErrors
           THEN /\ resp' = BadRequest(op, u, pk, errors)
                /\ UNCHANGED inflight
           ELSE /\ Cardinality(DOMAIN inflight) < MaxInFlight
                /\ inflight' = inflight @@
                       (FreeSlot :> CategoryWrite(op, u, pk, categories[pk].user,
                                                  Get(data, "name", categories[pk].name)))
                /\ UNCHANGED resp
        /\ UNCHANGED <<categories, tasks, nextCategoryId, nextTaskId, now, accounts>>

\* The rest of the handler: perform_create / perform_update and the response.
CategorySave(slot) ==
    /\ slot \in DOMAIN inflight
    /\ SaveCategory(inflight[slot])
    /\ inflight' = [i \in DOMAIN inflight \ {slot} |-> inflight[i]]
    /\ UNCHANGED <<tasks, nextTaskId, now, accounts>>

ConcurrentBodies == {Body1("name", <<"W">>), Body1("name", <<"w">>)}

NextConcurrent ==
    \/ \E u \in Users, data \in ConcurrentBodies : CategoryCreateValidate(u, data)
    \/ \E u \in Users, pk \in CategoryPks, data \in ConcurrentBodies,
          partial \in BOOLEAN : CategoryUpdateValidate(u, pk, data, partial)
    \/ \E slot \in 1..MaxInFlight : CategorySave(slot)

SpecConcurrent == Init /\ [][NextConcurrent]_vars

\* --- SpecRace: updates and toggles of several requests at once.  A request
\* loads the task (get_object) in one step and saves it in a later one; other
\* requests may run between the two.
\* A task write between its read and its save: the instance in memory, with
\* the attributes the request set on it, and the fields the payload gave.
TaskWrite(op, u, pk, instance, fields) ==
    [op |-> op, user |-> u, pk |-> pk, instance |-> instance, fields |-> fields]

\* Model.save() with no update_fields: an UPDATE of every column of row pk, or
\* an INSERT when no row has that pk.
TaskRowSaved(rows, pk, instance) ==
    IF pk \in DOMAIN rows
    THEN [rows EXCEPT ![pk] = instance]
    ELSE rows @@ (pk :> instance)

\* PUT/PATCH /api/tasks/<pk>/ up to the end of serializer.is_valid().
TaskUpdateRead(u, pk, data, partial) ==
    IF ~IsAuthenticated(u) THEN permission_denied(UpdateOp("task", partial), u, pk) ELSE
    LET op == UpdateOp("task", partial)
        errors == TaskErrors(u, data, partial)
    IN  /\ IF pk \notin TaskQueryset(u)
           THEN /\ resp' = NotFound(op, u, pk)
                /\ UNCHANGED inflight
           ELSE IF errors # NoErrors
           THEN /\ resp' = BadRequest(op, u, pk, errors)
                /\ UNCHANGED inflight
           ELSE /\ Cardinality(DOMAIN inflight) < MaxInFlight
                /\ inflight' = inflight @@
                       (FreeSlot :> TaskWrite(op, u, pk,
                                              WithAttrs(tasks[pk], ValidatedData(data)),
                                              DOMAIN ValidatedData(data)))
                /\ UNCHANGED resp
        /\ UNCHANGED <<categories, tasks, nextCategoryId, nextTaskId, now, accounts>>

\* PATCH /api/tasks/<pk>/toggle/ up to the assignments of mark_complete or
\* mark_incomplete, before their self.save().
TaskToggleRead(u, pk, data) ==
    IF ~IsAuthenticated(u) THEN permission_denied("task_toggle", u, pk) ELSE
    /\ IF pk \notin TaskQueryset(u)
       THEN /\ resp' = NotFound("task_toggle", u, pk)
            /\ UNCHANGED inflight
       ELSE /\ Cardinality(DOMAIN inflight) < MaxInFlight
            /\ inflight' = inflight @@
                   (FreeSlot :> TaskWrite("task_toggle", u, pk, Toggled(tasks[pk], data, now),
                                          {"status", "completed_at"}))
            /\ UNCHANGED resp
    /\ UNCHANGED <<categories, tasks, nextCategoryId, nextTaskId, now, accounts>>

\* The rest of either handler: instance.save() and the response.
TaskSave(slot) ==
    /\ slot \in DOMAIN inflight
    /\ tasks' = TaskRowSaved(tasks, inflight[slot].pk, inflight[slot].instance)
    /\ resp' = Response(inflight[slot].op, inflight[slot].user, inflight[slot].pk,
                        HTTP_200_OK, NoErrors, <<inflight[slot].pk>>)
    /\ inflight' = [i \in DOMAIN inflight \ {slot} |-> inflight[i]]
    /\ UNCHANGED <<categories, nextCategoryId, nextTaskId, now, accounts>>

\* One user's requests on her own tasks.
RaceUsers == {"carol"}

RacePatches == {Body1("priority", "HIGH")}

NextRace ==
    \/ \E u \in RaceUsers : TaskCreate(u, MinimalTask)
    \/ \E u \in RaceUsers, pk \in TaskPks : TaskUpdateRead(u, pk, MinimalTask, FALSE)
    \/ \E u \in RaceUsers, pk \in TaskPks, data \in RacePatches :
          TaskUpdateRead(u, pk, data, TRUE)
    \/ \E u \in RaceUsers, pk \in TaskPks : TaskToggleRead(u, pk, EmptyBody)
    \/ \E slot \in 1..MaxInFlight : TaskSave(slot)

SpecRace == Init /\ [][NextRace]_vars

\* --- SpecQuery: the list endpoints with every combination of query
\* parameters, over tasks that differ in the filtered and searched fields.
RichTask ==
    Body2("title", <<"x">>, "due_date", 2)
    @@ Body2("description", <<"M">>, "priority", "HIGH")

QueryBodies ==
    {MinimalTask, RichTask} \cup {MinimalTask @@ Body1("category", c) : c \in CategoryPks}

\* A query parameter left out, or given one of the values.
Choice(key, values) == {EmptyBody} \cup {Body1(key, v) : v \in values}

CategoryListParams ==
    {a @@ b @@ c @@ d :
        a \in Choice("search", {<<"w">>}),
        b \in Choice("ordering", {"-name", "created_at", "user"}),
        c \in Choice("page", {2}),
        d \in Choice("user", {"dave"})}

TaskListParams ==
    {a @@ b @@ c @@ d @@ e @@ f @@ g :
        a \in Choice("priority", {"HIGH"}),
        b \in Choice("status", {"PENDING"}),
        c \in Choice("category", CategoryPks),
        d \in Choice("search", {<<"m">>}),
        e \in Choice("ordering", {"-due_date"}),
        f \in Choice("page", {2}),
        g \in Choice("user", {"dave"})}
    \cup {Body1("due_date", 2), Body1("page_size", 500), Body1("page_size", 1),
          Body1("ordering", "user"),
          Body1("priority", "owner"), Body1("category", MissingPk)}

NextQuery ==
    \E u \in Users :
        \/ \E data \in CategoryBodies : CategoryCreate(u, data)
        \/ \E data \in QueryBodies : TaskCreate(u, data)
        \/ \E params \in CategoryListParams : CategoryList(u, params)
        \/ \E params \in TaskListParams : TaskList(u, params)

SpecQuery == Init /\ [][NextQuery]_vars

\* --- SpecSpoof: every payload names another owner and a completion time, and
\* every task is created in a category.
SpoofedFields == Body2("user", "dave", "completed_at", 1)

SpoofCategoryBodies == {Body1("name", <<"W">>) @@ SpoofedFields}

SpoofTaskBodies == {MinimalTask @@ SpoofedFields @@ Body1("category", c) : c \in CategoryPks}

SpoofTaskPatches == {SpoofedFields}

NextSpoof ==
    \E u \in Users :
        \/ \E data \in SpoofCategoryBodies : CategoryCreate(u, data)
        \/ \E pk \in CategoryPks, data \in SpoofCategoryBodies, partial \in BOOLEAN :
              CategoryUpdate(u, pk, data, partial)
        \/ \E pk \in CategoryPks : CategoryDestroy(u, pk)
        \/ \E data \in SpoofTaskBodies : TaskCreate(u, data)
        \/ \E pk \in TaskPks, data \in SpoofTaskBodies : TaskUpdate(u, pk, data, FALSE)
        \/ \E pk \in TaskPks, data \in SpoofTaskPatches : TaskUpdate(u, pk, data, TRUE)
        \/ \E pk \in TaskPks : TaskDestroy(u, pk)
        \/ \E pk \in TaskPks : TaskToggle(u, pk, EmptyBody)

SpecSpoof == Init /\ [][NextSpoof]_vars

\* --- SpecRegister: registrations, one after another.
Password(n) == [i \in 1..n |-> "p"]

Usernames == Names \cup {<<"m">>, <<" ", "w">>}

Passwords ==
    {Password(PasswordMinLength), Password(PasswordMinLength - 1),
     Password(PasswordMinLength - 1) \o <<" ">>}

Emails == {BlankText, <<"c", "@", "x">>, <<"c">>}

RegisterBodies ==
    {Body2("username", n, "password", p) @@ e :
        n \in Usernames, p \in Passwords, e \in Choice("email", Emails)}
    \cup {EmptyBody}

NextRegister == \E data \in RegisterBodies : Register(data)

SpecRegister == Init /\ [][NextRegister]_vars

\* --- SpecAnonymous: every category and task endpoint, called by a logged-in
\* user and by a client that presents no valid identity.
Requesters == {"carol", AnonymousUser}

AnonymousTaskBodies == {MinimalTask} \cup {MinimalTask @@ Body1("category", c) : c \in CategoryPks}

NextAnonymous ==
    \E u \in Requesters :
        \/ CategoryCreate(u, Body1("name", <<"W">>))
        \/ \E pk \in CategoryPks : CategoryRetrieve(u, pk)
        \/ \E pk \in CategoryPks, partial \in BOOLEAN :
              CategoryUpdate(u, pk, Body1("name", <<"H">>), partial)
        \/ \E pk \in CategoryPks : CategoryDestroy(u, pk)
        \/ CategoryList(u, EmptyBody)
        \/ \E data \in AnonymousTaskBodies : TaskCreate(u, data)
        \/ \E pk \in TaskPks : TaskRetrieve(u, pk)
        \/ \E pk \in TaskPks, data \in AnonymousTaskBodies, partial \in BOOLEAN :
              TaskUpdate(u, pk, data, partial)
        \/ \E pk \in TaskPks : TaskDestroy(u, pk)
        \/ \E pk \in TaskPks : TaskToggle(u, pk, EmptyBody)
        \/ TaskList(u, EmptyBody)

SpecAnonymous == Init /\ [][NextAnonymous]_vars

\* ------------------------------------------------------------ properties
Completed(row) == row.status = "COMPLETED"
Stamped(row) == row.completed_at # NoTime

\* C1: every stored task has completed_at set if and only if its status is
\* COMPLETED, after any sequence of create, update and toggle requests.
C1_CompletedAtIffCompleted ==
    \A pk \in DOMAIN tasks : Stamped(tasks[pk]) <=> Completed(tasks[pk])

Returned == {resp.results[i] : i \in 1..Len(resp.results)}

\* C2: every entity a list request returns is owned by the requester, whatever
\* the filter, search, ordering and pagination parameters.
C2_ListReturnsOnlyOwn ==
    /\ resp.op = "category_list" =>
          \A pk \in Returned : pk \in DOMAIN categories /\ categories[pk].user = resp.user
    /\ resp.op = "task_list" =>
          \A pk \in Returned : pk \in DOMAIN tasks /\ tasks[pk].user = resp.user

\* A list answered with the requester's entities while another user owns some.
C2_Witness ==
    /\ resp.op = "task_list"
    /\ resp.code = HTTP_200_OK
    /\ Len(resp.results) = 1
    /\ \E pk \in DOMAIN tasks : tasks[pk].user # resp.user /\ tasks[pk].category # NoCategory

DetailOps(kind) ==
    {kind \o "_retrieve", kind \o "_update", kind \o "_partial_update", kind \o "_destroy"}

\* The request the response r answers named a pk of `rows` that the requester
\* does not own, or a pk of no row.
NotOwn(r, rows) == r.pk \notin DOMAIN rows \/ rows[r.pk].user # r.user

\* C3: a retrieve, update or delete that names another user's category or
\* task is answered NotFound, exactly as for a pk that names nothing, and the
\* store is unchanged.
C3_ForeignIsNotFound ==
    [][ /\ (resp'.op \in DetailOps("category") /\ NotOwn(resp', categories)) =>
              resp' = NotFound(resp'.op, resp'.user, resp'.pk) /\ UNCHANGED store
        /\ (resp'.op \in DetailOps("task") /\ NotOwn(resp', tasks)) =>
              resp' = NotFound(resp'.op, resp'.user, resp'.pk) /\ UNCHANGED store
      ]_vars

\* An update of another user's existing task was answered NotFound.
C3_Witness ==
    /\ resp.op \in {"task_update", "task_partial_update"}
    /\ resp.code = HTTP_404_NOT_FOUND
    /\ resp.pk \in DOMAIN tasks
    /\ tasks[resp.pk].user # resp.user
    /\ \E pk \in DOMAIN categories : categories[pk].user # resp.user

\* Two categories of one owner whose names are equal when case is ignored.
CaseDuplicate(cats, a, b) ==
    /\ a # b
    /\ cats[a].user = cats[b].user
    /\ Lower(cats[a].name) = Lower(cats[b].name)

NoCaseDuplicates(cats) == \A a, b \in DOMAIN cats : ~CaseDuplicate(cats, a, b)

\* Owner u holds a category other than `except` named n when case is ignored.
Collides(u, n, except) ==
    \E pk \in DOMAIN categories \ {except} :
        categories[pk].user = u /\ Lower(categories[pk].name) = Lower(n)

ValidationFailed(r) == r.code = HTTP_400_BAD_REQUEST

\* C4: with requests handled one after another, no owner ever holds two
\* categories whose names are equal when case is ignored: a create or rename
\* to such a name fails with a validation error and changes nothing, and the
\* name is accepted when only another owner holds it.
C4_NamesUniquePerOwner ==
    [][ /\ NoCaseDuplicates(categories')
        /\ resp'.op = "category_create" =>
              \A n \in Names :
                  CategoryCreate(resp'.user, Body1("name", n)) =>
                      IF Collides(resp'.user, n, NoCategory)
                      THEN ValidationFailed(resp') /\ UNCHANGED store
                      ELSE /\ resp'.code = HTTP_201_CREATED
                           /\ categories'[resp'.pk] = [user |-> resp'.user, name |-> n]
        /\ (resp'.op \in {"category_update", "category_partial_update"}
               /\ resp'.pk \in CategoryQueryset(resp'.user)) =>
              \A n \in Names, partial \in BOOLEAN :
                  CategoryUpdate(resp'.user, resp'.pk, Body1("name", n), partial) =>
                      IF Collides(resp'.user, n, resp'.pk)
                      THEN ValidationFailed(resp') /\ UNCHANGED store
                      ELSE resp'.code = HTTP_200_OK /\ categories'[resp'.pk].name = n
      ]_vars

\* A create was refused for a name its owner holds in another case, while
\* two owners hold names equal when case is ignored.
C4_Witness ==
    /\ resp.op = "category_create"
    /\ ValidationFailed(resp)
    /\ \E a, b \in DOMAIN categories :
          /\ categories[a].user = resp.user
          /\ categories[b].user # resp.user
          /\ categories[a].name # categories[b].name
          /\ Lower(categories[a].name) = Lower(categories[b].name)

CrossOwnerError ==
    <<"category", "You can only assign your own categories to your tasks.">>

\* The category pk belongs to a user other than u.
ForeignCategory(u, c) == c \in DOMAIN categories /\ categories[c].user # u

\* C5: a task create, or an update of one's own task, whose category is
\* another user's fails with a validation error and leaves the tasks as they
\* were.
C5_ForeignCategoryRefused ==
    [][ \A c \in CategoryPks :
            ForeignCategory(resp'.user, c) =>
                /\ resp'.op = "task_create" =>
                      \A data \in {MinimalTask @@ Body1("category", c)} :
                          TaskCreate(resp'.user, data) =>
                              /\ ValidationFailed(resp')
                              /\ CrossOwnerError \in resp'.errors
                              /\ UNCHANGED store
                /\ (resp'.op \in {"task_update", "task_partial_update"}
                       /\ resp'.pk \in TaskQueryset(resp'.user)) =>
                      \A partial \in BOOLEAN,
                         data \in {MinimalTask @@ Body1("category", c), Body1("category", c)} :
                          TaskUpdate(resp'.user, resp'.pk, data, partial) =>
                              /\ ValidationFailed(resp')
                              /\ CrossOwnerError \in resp'.errors
                              /\ UNCHANGED store
      ]_vars

\* An update that named another user's category was refused and the task
\* still has the category it had.
C5_Witness ==
    /\ resp.op = "task_partial_update"
    /\ ValidationFailed(resp)
    /\ CrossOwnerError \in resp.errors
    /\ tasks[resp.pk].category # NoCategory
    /\ categories[tasks[resp.pk].category].user = resp.user

\* C6: every task whose category is set references a category of the task's
\* own owner.
C6_CategoryOwnerIsTaskOwner ==
    \A pk \in DOMAIN tasks :
        tasks[pk].category # NoCategory =>
            /\ tasks[pk].category \in DOMAIN categories
            /\ categories[tasks[pk].category].user = tasks[pk].user

\* Two users each have a task in a category, after a category was deleted.
C6_Witness ==
    /\ \E a, b \in DOMAIN tasks :
          /\ tasks[a].user # tasks[b].user
          /\ tasks[a].category # NoCategory
          /\ tasks[b].category = NoCategory
    /\ resp.op = "category_destroy"
    /\ resp.code = HTTP_204_NO_CONTENT

\* C7: whatever the interleaving of concurrent creates and renames, no owner
\* ends with two stored categories whose names are equal when case is ignored.
C7_NoConcurrentDuplicates ==
    \A a, b \in DOMAIN categories : ~CaseDuplicate(categories, a, b)

\* C8: a save the store refuses for a duplicate name is answered like a failed
\* name check: a validation error, not a server error.
C8_RefusedSaveIsValidationError ==
    [][ \A slot \in DOMAIN inflight :
            ( /\ CategorySave(slot)
              /\ UniqueTogetherViolated(categories, inflight[slot].owner,
                                        inflight[slot].name, inflight[slot].pk) )
            => /\ ValidationFailed(resp')
               /\ resp'.errors = {<<"name", "You already have a category with this name.">>}
      ]_vars

\* The status the request body asks for, "" when it gives none.
Requested(data) == Get(data, "status", "")

\* C9: a toggle by the task's owner succeeds; asked for COMPLETED it leaves
\* COMPLETED stamped with the current time, asked for PENDING it leaves PENDING
\* with no timestamp, and asked for nothing or anything else it flips the
\* status the task has.
C9_ToggleOutcome ==
    [][ (resp'.op = "task_toggle" /\ resp'.pk \in TaskQueryset(resp'.user)) =>
            \A data \in ToggleBodies :
                TaskToggle(resp'.user, resp'.pk, data) =>
                    /\ resp'.code = HTTP_200_OK
                    /\ DOMAIN tasks' = DOMAIN tasks
                    /\ \A other \in DOMAIN tasks \ {resp'.pk} : tasks'[other] = tasks[other]
                    /\ IF \/ Requested(data) = "COMPLETED"
                          \/ Requested(data) # "PENDING" /\ tasks[resp'.pk].status = "PENDING"
                       THEN tasks'[resp'.pk] =
                                [tasks[resp'.pk] EXCEPT !.status = "COMPLETED",
                                                        !.completed_at = now]
                       ELSE tasks'[resp'.pk] =
                                [tasks[resp'.pk] EXCEPT !.status = "PENDING",
                                                        !.completed_at = NoTime]
      ]_vars

\* A toggle that asked for a status left the task COMPLETED, stamped with the
\* current time after the clock had advanced.
C9_Witness ==
    /\ resp.op = "task_toggle"
    /\ resp.code = HTTP_200_OK
    /\ resp.run = NoRun
    /\ tasks[resp.pk].status = "COMPLETED"
    /\ tasks[resp.pk].completed_at = now
    /\ now > 0

\* C10: of two successive body-less toggles of a PENDING task with no
\* timestamp, the first leaves it COMPLETED with a timestamp and the second
\* leaves it PENDING with none.
C10_ToggleTwiceReturns ==
    ( /\ resp.op = "task_toggle"
      /\ resp.run.n > 0
      /\ resp.run.status = "PENDING"
      /\ resp.run.completed_at = NoTime )
    => /\ resp.run.n = 1 =>
             Completed(tasks[resp.pk]) /\ Stamped(tasks[resp.pk])
       /\ resp.run.n = 2 =>
             ~Completed(tasks[resp.pk]) /\ ~Stamped(tasks[resp.pk])

\* The second of two successive body-less toggles of a PENDING task answered.
C10_Witness ==
    /\ resp.op = "task_toggle"
    /\ resp.run.n = 2
    /\ resp.run.status = "PENDING"
    /\ resp.run.completed_at = NoTime
    /\ tasks[resp.pk].status = "PENDING"

\* C11: the owner of a new category or task is the requester of the create
\* request that made it, whatever user the payload names, and no request
\* changes the owner of an existing category or task.
C11_OwnerIsCreator ==
    [][ /\ \A pk \in DOMAIN categories' :
              IF pk \in DOMAIN categories
              THEN categories'[pk].user = categories[pk].user
              ELSE resp'.op = "category_create" /\ categories'[pk].user = resp'.user
        /\ \A pk \in DOMAIN tasks' :
              IF pk \in DOMAIN tasks
              THEN tasks'[pk].user = tasks[pk].user
              ELSE resp'.op = "task_create" /\ tasks'[pk].user = resp'.user
      ]_vars

\* carol created a task with a payload that names dave as its user (every
\* payload of SpecSpoof does), in her own category; the task is hers, and a
\* task of dave's has been toggled since it was made.
C11_Witness ==
    /\ resp.op = "task_create"
    /\ resp.code = HTTP_201_CREATED
    /\ resp.user = "carol"
    /\ tasks[resp.pk].user = "carol"
    /\ categories[tasks[resp.pk].category].user = "carol"
    /\ \E pk \in DOMAIN tasks : tasks[pk].user = "dave" /\ Completed(tasks[pk])

\* The page size the settings' comment promises: the requested size, capped.
PromisedPageSize(params) ==
    IF ~Has(params, "page_size") THEN PAGE_SIZE
    ELSE IF params.page_size > MAX_PAGE_SIZE THEN MAX_PAGE_SIZE
    ELSE params.page_size

\* C12: a list is served with the default page size of 10 when none is
\* requested, the requested size from 1 to 100, and 100 when more is requested:
\* no page holds more items than that size.
C12_PageSizeClamped ==
    [][ resp'.op = "task_list" =>
            \A params \in {p \in TaskListParams : Has(p, "page_size")} :
                (TaskList(resp'.user, params) /\ resp'.code = HTTP_200_OK) =>
                    Len(resp'.results) <= PromisedPageSize(params)
      ]_vars

\* C13: a task created with only a title and a due date is stored with
\* priority MEDIUM, status PENDING, no completion time and no category.
C13_MinimalTaskDefaults ==
    [][ resp'.op = "task_create" =>
            (TaskCreate(resp'.user, MinimalTask) =>
                /\ resp'.code = HTTP_201_CREATED
                /\ resp'.pk \notin DOMAIN tasks
                /\ tasks'[resp'.pk] =
                       [user |-> resp'.user, title |-> MinimalTask.title,
                        description |-> BlankText, due_date |-> MinimalTask.due_date,
                        priority |-> "MEDIUM", status |-> "PENDING",
                        completed_at |-> NoTime, category |-> NoCategory])
      ]_vars

\* A create stored a task with the default priority and status, beside a
\* task that was created with priority HIGH.
C13_Witness ==
    /\ resp.op = "task_create"
    /\ resp.code = HTTP_201_CREATED
    /\ tasks[resp.pk].priority = "MEDIUM"
    /\ tasks[resp.pk].status = "PENDING"
    /\ tasks[resp.pk].completed_at = NoTime
    /\ tasks[resp.pk].category = NoCategory
    /\ \E pk \in DOMAIN tasks : tasks[pk].priority = "HIGH"

DuplicateNameError == <<"name", "You already have a category with this name.">>

\* C14: renaming a category to its own name, or to its own name in another
\* case, succeeds; a rename is refused as a duplicate only when a different
\* category of the same owner holds the name.
C14_RenameExcludesSelf ==
    [][ (resp'.op \in {"category_update", "category_partial_update"}
            /\ resp'.pk \in CategoryQueryset(resp'.user)) =>
            \A n \in Names, partial \in BOOLEAN :
                CategoryUpdate(resp'.user, resp'.pk, Body1("name", n), partial) =>
                    /\ Lower(n) = Lower(categories[resp'.pk].name) =>
                          /\ resp'.code = HTTP_200_OK
                          /\ categories'[resp'.pk].name = n
                    /\ DuplicateNameError \in resp'.errors =>
                          \E other \in CategoryQueryset(resp'.user) \ {resp'.pk} :
                              Lower(categories[other].name) = Lower(n)
      ]_vars

\* A PUT named category 1 "w" and succeeded while its owner's other category
\* is "H": category 1 was "W" or "w" before, the names its owner could give it.
C14_Witness ==
    /\ resp.op = "category_update"
    /\ resp.code = HTTP_200_OK
    /\ resp.pk = 1
    /\ DOMAIN categories = {1, 2}
    /\ categories[1] = [user |-> resp.user, name |-> <<"w">>]
    /\ categories[2] = [user |-> resp.user, name |-> <<"H">>]

\* C15: deleting a category deletes no task: a task that referenced it is
\* left with no category and its other fields as they were, and every other
\* task is unchanged.
C15_DeleteCategoryKeepsTasks ==
    [][ (resp'.op = "category_destroy" /\ resp'.code = HTTP_204_NO_CONTENT) =>
            /\ resp'.pk \notin DOMAIN categories'
            /\ DOMAIN tasks' = DOMAIN tasks
            /\ \A t \in DOMAIN tasks :
                  tasks'[t] = IF tasks[t].category = resp'.pk
                              THEN [tasks[t] EXCEPT !.category = NoCategory]
                              ELSE tasks[t]
      ]_vars

\* The one category delete there has been (two categories were made and one
\* is left) was just answered: a task has no category, which in SpecSpoof only
\* a delete of its category brings about, and a task is still in the other.
C15_Witness ==
    /\ resp.op = "category_destroy"
    /\ resp.code = HTTP_204_NO_CONTENT
    /\ nextCategoryId = 3
    /\ Cardinality(DOMAIN categories) = 1
    /\ \E a, b \in DOMAIN tasks :
          /\ tasks[a].category = NoCategory
          /\ tasks[b].category \in DOMAIN categories
          /\ Completed(tasks[a])

\* C16: completed_at is never written from a payload: a create stores none,
\* an update leaves the stored value as it was whatever the payload carries,
\* and only a toggle of the task changes it.
C16_CompletedAtNotWritable ==
    [][ \A pk \in DOMAIN tasks' :
            IF pk \in DOMAIN tasks
            THEN tasks'[pk].completed_at # tasks[pk].completed_at =>
                     resp'.op = "task_toggle" /\ resp'.pk = pk
            ELSE resp'.op = "task_create" /\ tasks'[pk].completed_at = NoTime
      ]_vars

\* A PATCH whose payload carries completed_at = 1 (the only PATCH payload of
\* SpecSpoof) succeeded on a task a toggle completed at time 0, and the task
\* still has that time.
C16_Witness ==
    /\ resp.op = "task_partial_update"
    /\ resp.code = HTTP_200_OK
    /\ Completed(tasks[resp.pk])
    /\ tasks[resp.pk].completed_at = 0
    /\ tasks[resp.pk].completed_at # SpoofedFields.completed_at

\* Some user has the name when case is ignored.
UsernameTaken(name) == \E held \in DOMAIN accounts : Lower(held) = Lower(name)

\* C17: a registration whose username equals an existing one when case is
\* ignored, or whose password has fewer than 8 characters, is refused and
\* creates no user; a successful one creates exactly one user and answers with
\* the username and never the password; no two users ever have usernames
\* equal when case is ignored.
C17_Registration ==
    [][ resp'.op = "register" =>
            /\ \A data \in RegisterBodies \ {EmptyBody} :
                  Register(data) =>
                      /\ (UsernameTaken(data.username) \/ Len(data.password) < PasswordMinLength)
                            => ValidationFailed(resp') /\ UNCHANGED accounts
                      /\ resp'.code = HTTP_201_CREATED =>
                            /\ Cardinality(DOMAIN accounts') = Cardinality(DOMAIN accounts) + 1
                            /\ \A name \in DOMAIN accounts : accounts'[name] = accounts[name]
                            /\ "password" \notin DOMAIN resp'.results[1]
                            /\ resp'.results[1].username \in DOMAIN accounts' \ DOMAIN accounts
                            /\ IExact(resp'.results[1].username, Strip(data.username))
                      /\ resp'.code # HTTP_201_CREATED => UNCHANGED accounts
            /\ \A a, b \in DOMAIN accounts' : Lower(a) = Lower(b) => a = b
      ]_vars

\* A registration was refused because the username is taken, while "W" is
\* registered and "w" is not, and a second user is registered.
C17_Witness ==
    /\ resp.op = "register"
    /\ ValidationFailed(resp)
    /\ <<"username", "A user with this username already exists.">> \in resp.errors
    /\ <<"W">> \in DOMAIN accounts
    /\ Cardinality(DOMAIN accounts) = 2

\* C18: a request to a category or task endpoint that carries no valid
\* identity is refused as unauthenticated: the response holds no entity and the
\* store is unchanged.
C18_UnauthenticatedRefused ==
    [][ (resp'.user = AnonymousUser /\ resp'.op # "register") =>
            /\ resp' = NotAuthenticated(resp'.op, resp'.user, resp'.pk)
            /\ resp'.code = HTTP_401_UNAUTHORIZED
            /\ resp'.results = <<>>
            /\ UNCHANGED <<categories, tasks, nextCategoryId, nextTaskId>>
      ]_vars

\* A toggle without identity of carol's existing task, which is in a category,
\* was refused.
C18_Witness ==
    /\ resp.user = AnonymousUser
    /\ resp.op = "task_toggle"
    /\ resp.code = HTTP_401_UNAUTHORIZED
    /\ resp.pk \in DOMAIN tasks
    /\ tasks[resp.pk].category \in DOMAIN categories
    /\ ~Completed(tasks[resp.pk])

\* C19: a request changes nothing that another user owns: every category and
\* task of a user other than the requester is still stored with the values it
\* had, and nothing new belongs to anyone but the requester.
C19_WriteIsolation ==
    [][ resp'.user \in Users =>
            /\ \A pk \in DOMAIN categories :
                  categories[pk].user # resp'.user =>
                      pk \in DOMAIN categories' /\ categories'[pk] = categories[pk]
            /\ \A pk \in DOMAIN categories' \ DOMAIN categories :
                  categories'[pk].user = resp'.user
            /\ \A pk \in DOMAIN tasks :
                  tasks[pk].user # resp'.user =>
                      pk \in DOMAIN tasks' /\ tasks'[pk] = tasks[pk]
            /\ \A pk \in DOMAIN tasks' \ DOMAIN tasks :
                  tasks'[pk].user = resp'.user
      ]_vars

\* carol deleted her category, which her task was in, while dave's task is
\* in dave's category.
C19_Witness ==
    /\ resp.op = "category_destroy"
    /\ resp.code = HTTP_204_NO_CONTENT
    /\ resp.user = "carol"
    /\ \E a, b \in DOMAIN tasks :
          /\ tasks[a].user = "carol"
          /\ tasks[a].category = NoCategory
          /\ tasks[b].user = "dave"
          /\ tasks[b].category \in DOMAIN categories
          /\ categories[tasks[b].category].user = "dave"

\* C20: when an update whose payload gives no status saves, the task keeps
\* the status and completed_at it has in the store, as the latest toggle left
\* them, whatever ran between the update's read and its save.
C20_NoLostToggle ==
    [][ \A slot \in DOMAIN inflight :
            ( /\ TaskSave(slot)
              /\ inflight[slot].op # "task_toggle"
              /\ "status" \notin inflight[slot].fields
              /\ inflight[slot].pk \in DOMAIN tasks )
            => /\ tasks'[inflight[slot].pk].status = tasks[inflight[slot].pk].status
               /\ tasks'[inflight[slot].pk].completed_at =
                      tasks[inflight[slot].pk].completed_at
      ]_vars

\* The response to a task write whose payload is `data` with the category id
\* of no category at all.
MissingCategoryResponse(op, u, pk, data, partial) ==
    BadRequest(op, u, pk, TaskErrors(u, data @@ Body1("category", MissingPk), partial))

\* C21: a task create, or an update of one's own task, that names another
\* user's category is answered exactly as one that names the id of no
\* category, and stores nothing: the response does not tell whether another
\* user's category with that id exists.
C21_ForeignCategoryLooksMissing ==
    [][ \A c \in CategoryPks :
            ForeignCategory(resp'.user, c) =>
                /\ resp'.op = "task_create" =>
                      (TaskCreate(resp'.user, Body1("category", c) @@ MinimalTask) =>
                          /\ resp' = MissingCategoryResponse("task_create", resp'.user, 0,
                                                             MinimalTask, FALSE)
                          /\ UNCHANGED store)
                /\ (resp'.op = "task_partial_update"
                       /\ resp'.pk \in TaskQueryset(resp'.user)) =>
                      (TaskUpdate(resp'.user, resp'.pk, Body1("category", c), TRUE) =>
                          /\ resp' = MissingCategoryResponse("task_partial_update", resp'.user,
                                                             resp'.pk, EmptyBody, TRUE)
                          /\ UNCHANGED store)
      ]_vars

====
